---- MODULE Spec2Model ----
(***************************************************************************)
(* Green Procurement Advisor: the scoring function, the CSV row mapping    *)
(* and the upload / history request handlers of the Express server.        *)
(*                                                                         *)
(* JavaScript strings are sequences of one-character strings, so that      *)
(* toLowerCase and includes are computed on characters.  A JavaScript      *)
(* object built from a CSV row is an insertion-ordered sequence of         *)
(* <<key, value>> pairs with unique keys.                                  *)
(***************************************************************************)
EXTENDS Integers, Sequences, FiniteSets, TLC

(***************************************************************************)
(* Bounds of the model.                                                    *)
(***************************************************************************)
\* Longest product text, in words, that the scoring specification draws.
MaxWords == 3
\* Number of HTTP requests the service specification lets arrive.
MaxRequests == 2
\* Server timestamp ticks per millisecond (Firestore timestamps are finer
\* than the milliseconds of a JavaScript Date).
TicksPerMilli == 2
\* Number of uploads of earlier requests the history specification lets
\* complete.
MaxEarlier == 3
\* Number of sign-in and sign-out events the client specification lets the
\* auth listener report.
MaxAuthEvents == 3
\* Number of requests (history, upload) the client specification lets the
\* App component issue.
MaxClientCalls == 3

(***************************************************************************)
(* Strings.                                                                *)
(***************************************************************************)
UpperAlphabet == <<"A","B","C","D","E","F","G","H","I","J","K","L","M","N","O","P","Q","R","S","T","U","V","W","X","Y","Z">>
LowerAlphabet == <<"a","b","c","d","e","f","g","h","i","j","k","l","m","n","o","p","q","r","s","t","u","v","w","x","y","z">>

\* The lower-case letter of each upper-case letter, and the reverse.
LowerOf == [c \in {UpperAlphabet[i] : i \in 1..26} |->
              LowerAlphabet[CHOOSE i \in 1..26 : UpperAlphabet[i] = c]]
UpperOf == [c \in {LowerAlphabet[i] : i \in 1..26} |->
              UpperAlphabet[CHOOSE i \in 1..26 : LowerAlphabet[i] = c]]

toLowerChar(c) == IF c \in DOMAIN LowerOf THEN LowerOf[c] ELSE c

toUpperChar(c) == IF c \in DOMAIN UpperOf THEN UpperOf[c] ELSE c

\* String.prototype.toLowerCase
toLowerCase(s) == [i \in 1..Len(s) |-> toLowerChar(s[i])]

\* String.prototype.toUpperCase (used by the properties only, to vary letter case)
toUpperCase(s) == [i \in 1..Len(s) |-> toUpperChar(s[i])]

\* String.prototype.includes: sub occurs in s as a contiguous substring.
includes(s, sub) ==
    \E i \in 0..(Len(s) - Len(sub)) : SubSeq(s, i + 1, i + Len(sub)) = sub

\* The keywords of the scoring rules.
KwRecycled == <<"r","e","c","y","c","l","e","d">>
KwCompostable == <<"c","o","m","p","o","s","t","a","b","l","e">>
KwOrganic == <<"o","r","g","a","n","i","c">>
KwReusable == <<"r","e","u","s","a","b","l","e">>
KwLed == <<"l","e","d">>
KwLocal == <<"l","o","c","a","l">>
KwPlastic == <<"p","l","a","s","t","i","c">>
KwDisposable == <<"d","i","s","p","o","s","a","b","l","e">>
KwSingleUse == <<"s","i","n","g","l","e","-","u","s","e">>

\* Property names of the row objects.
KeyProduct == <<"p","r","o","d","u","c","t">>
KeySuggestion == <<"s","u","g","g","e","s","t","i","o","n">>
KeyUserid == <<"u","s","e","r","i","d">>
KeyQuantity == <<"q","u","a","n","t","i","t","y">>

(***************************************************************************)
(* Objects: insertion-ordered <<key, value>> pairs.                        *)
(***************************************************************************)
\* key in obj
Has(fields, k) == \E i \in 1..Len(fields) : fields[i][1] = k

\* obj[key], for a key the object has
Get(fields, k) == fields[CHOOSE i \in 1..Len(fields) : fields[i][1] = k][2]

\* obj[key] = v: replaces the value of an existing key in place, else appends
Put(fields, k, v) ==
    IF Has(fields, k)
    THEN [i \in 1..Len(fields) |-> IF fields[i][1] = k THEN <<k, v>> ELSE fields[i]]
    ELSE Append(fields, <<k, v>>)

\* The keys of an object, as a set.
Keys(fields) == {fields[i][1] : i \in 1..Len(fields)}

\* A JavaScript value that is an object, and the value null.
Obj(fields) == [isNull |-> FALSE, fields |-> fields]
JsNull == [isNull |-> TRUE, fields |-> <<>>]

\* item.product === undefined in the place of !item.product
ProductFalsyUndefinedOnly(item) == ~Has(item.fields, KeyProduct)

\* !item.product: the property is undefined or the empty string
ProductFalsy(item) ==
    ~Has(item.fields, KeyProduct) \/ Get(item.fields, KeyProduct) = <<>>

(***************************************************************************)
(* calculateGreenScore                                                     *)
(***************************************************************************)
Min2(a, b) == IF a < b THEN a ELSE b
Max2(a, b) == IF a > b THEN a ELSE b

\* Math.max(0, Math.min(100, score))
ClampTopOnly(score) == Min2(100, score)
Clamp(score) == Max2(0, Min2(100, score))

Bonus(productName, kw, points) == IF includes(productName, kw) THEN points ELSE 0

\* The rules of calculateGreenScore, applied to the lower-cased product name.
RuleSumPlasticAlways(productName) ==
    50
    + Bonus(productName, KwRecycled, 20)
    + Bonus(productName, KwCompostable, 20)
    + Bonus(productName, KwOrganic, 15)
    + Bonus(productName, KwReusable, 15)
    + Bonus(productName, KwLed, 10)
    + Bonus(productName, KwLocal, 10)
    - Bonus(productName, KwPlastic, 30)
    - Bonus(productName, KwDisposable, 25)
    - Bonus(productName, KwSingleUse, 30)

RuleSum(productName) ==
    50
    + Bonus(productName, KwRecycled, 20)
    + Bonus(productName, KwCompostable, 20)
    + Bonus(productName, KwOrganic, 15)
    + Bonus(productName, KwReusable, 15)
    + Bonus(productName, KwLed, 10)
    + Bonus(productName, KwLocal, 10)
    - (IF includes(productName, KwPlastic) /\ ~includes(productName, KwReusable)
       THEN 30 ELSE 0)
    - Bonus(productName, KwDisposable, 25)
    - Bonus(productName, KwSingleUse, 30)

calculateGreenScore(item) ==
    IF item.isNull \/ ProductFalsy(item)
    THEN 0
    ELSE Clamp(RuleSum(toLowerCase(Get(item.fields, KeyProduct))))

(***************************************************************************)
(* csv-parser with mapHeaders: header => header.toLowerCase()              *)
(***************************************************************************)
\* A parser without the mapHeaders option: the header as typed
mapHeadersAsTyped(header) == header

mapHeaders(header) == toLowerCase(header)

Digits == <<"0","1","2","3","4","5","6","7","8","9">>

\* The name of cell n: the mapped header of its column, or "_<index>" for a
\* cell beyond the last header (csv-parser's default, non-strict mode).
CellKey(headers, n) ==
    IF n <= Len(headers) THEN mapHeaders(headers[n]) ELSE <<"_", Digits[n]>>

RECURSIVE RowObject(_, _, _)
\* One data row as an object: cell n under CellKey(n), a repeated name
\* keeping its first position and its last value.
RowObject(headers, cells, n) ==
    IF n = 0 THEN <<>>
    ELSE Put(RowObject(headers, cells, n - 1), CellKey(headers, n), cells[n])

ParseRow(headers, cells) == Obj(RowObject(headers, cells, Len(cells)))

(***************************************************************************)
(* State.                                                                  *)
(***************************************************************************)
VARIABLES
    uText,      \* scoring run: the product text typed so far
    uWords,     \* scoring run: number of words in uText
    uHeaders,   \* scoring run: the header line of the CSV
    uItem,      \* scoring run: the row object handed to calculateGreenScore
    uScore,     \* scoring run: the value calculateGreenScore returned
    uPc,        \* scoring run: "typing", "parsed", "scored"; "off" in the service
    reqs,       \* the requests received so far, in arrival order
    db,         \* the documents of the Firestore collection 'analyses'
    clock,      \* the last server timestamp Firestore assigned
    app         \* the state of the client's App component

vars == <<uText, uWords, uHeaders, uItem, uScore, uPc, reqs, db, clock, app>>
uVars == <<uText, uWords, uHeaders, uItem, uScore, uPc>>
sVars == <<reqs, db, clock>>

(***************************************************************************)
(* Inputs of the scoring run.                                              *)
(***************************************************************************)
\* Product texts of the README and of the documented examples.
TxtRecycledPaper == <<"R","e","c","y","c","l","e","d"," ","P","a","p","e","r">>
TxtReusablePlasticBottle == <<"R","e","u","s","a","b","l","e"," ","P","l","a","s","t","i","c"," ","B","o","t","t","l","e">>
TxtLedLightBulbs == <<"L","E","D"," ","L","i","g","h","t"," ","B","u","l","b","s">>
TxtDisposablePlasticCups == <<"D","i","s","p","o","s","a","b","l","e"," ","P","l","a","s","t","i","c"," ","C","u","p","s">>
TxtDisposableSingleUse == <<"D","i","s","p","o","s","a","b","l","e"," ","S","i","n","g","l","e","-","u","s","e">>
\* The words and phrases product texts are made of: a word for every
\* keyword, in various letter case, and words no rule mentions.
Vocabulary == {
    <<"R","e","c","y","c","l","e","d">>,
    <<"c","o","m","p","o","s","t","a","b","l","e">>,
    <<"O","R","G","A","N","I","C">>,
    <<"R","e","u","s","a","b","l","e">>,
    <<"L","E","D">>,
    <<"l","o","c","a","l">>,
    <<"P","l","a","s","t","i","c">>,
    <<"D","i","s","p","o","s","a","b","l","e">>,
    <<"S","i","n","g","l","e","-","u","s","e">>,
    <<"P","a","p","e","r">>,
    <<"C","u","p","s">>,
    <<"L","i","g","h","t"," ","B","u","l","b","s">>,
    <<"B","o","t","t","l","e">> }

\* Header lines: the product column under each spelling the README accepts,
\* with or without a second column, and a CSV with no product column.
HeaderLines == {
    << <<"p","r","o","d","u","c","t">>, <<"q","u","a","n","t","i","t","y">> >>,
    << <<"P","R","O","D","U","C","T">> >>,
    << <<"i","t","e","m">> >>,
    << <<"I","t","e","m">>, <<"Q","u","a","n","t","i","t","y">> >>,
    << <<"q","u","a","n","t","i","t","y">>, <<"p","r","i","c","e">> >> }

\* The value of the second column: a text in which keyword rules would fire.
OtherCell == <<"O","r","g","a","n","i","c"," ","1","0","0">>

Space == <<" ">>

(***************************************************************************)
(* The scoring run: one CSV row is typed, parsed and scored.               *)
(***************************************************************************)
UInit ==
    /\ uText = <<>>
    /\ uWords = 0
    /\ uHeaders = <<>>
    /\ uItem = JsNull
    /\ uScore = 0
    /\ uPc = "typing"

UOff ==
    /\ uText = <<>>
    /\ uWords = 0
    /\ uHeaders = <<>>
    /\ uItem = JsNull
    /\ uScore = 0
    /\ uPc = "off"

SOff ==
    /\ reqs = <<>>
    /\ db = <<>>
    /\ clock = 0

\* The App component before it is mounted: useState's initial values, no
\* listener, no request.
AppInitial == [
    mounted |-> FALSE,
    user |-> [set |-> FALSE, uid |-> <<>>],
    history |-> <<>>,
    fetches |-> {},
    uploads |-> {},
    authEvents |-> 0,
    issued |-> 0,
    source |-> [set |-> FALSE, uid |-> <<>>, session |-> 0] ]

COff == app = AppInitial

AddWord ==
    /\ uPc = "typing"
    /\ uWords < MaxWords
    /\ \E w \in Vocabulary :
         uText' = IF uText = <<>> THEN w ELSE uText \o Space \o w
    /\ uWords' = uWords + 1
    /\ UNCHANGED <<uHeaders, uItem, uScore, uPc, sVars, app>>

\* csv-parser emits the row as an object keyed by the mapped header names.
ReadRow ==
    /\ uPc = "typing"
    /\ \E h \in HeaderLines :
         /\ uHeaders' = h
         /\ uItem' = ParseRow(h, IF Len(h) = 1 THEN <<uText>> ELSE <<uText, OtherCell>>)
    /\ uPc' = "parsed"
    /\ UNCHANGED <<uText, uWords, uScore, sVars, app>>

\* calculateGreenScore called with no row at all.
PassNull ==
    /\ uPc = "typing"
    /\ uWords = 0
    /\ uItem' = JsNull
    /\ uPc' = "parsed"
    /\ UNCHANGED <<uText, uWords, uHeaders, uScore, sVars, app>>

ScoreRow ==
    /\ uPc = "parsed"
    /\ uScore' = calculateGreenScore(uItem)
    /\ uPc' = "scored"
    /\ UNCHANGED <<uText, uWords, uHeaders, uItem, sVars, app>>

ScoreNext == AddWord \/ ReadRow \/ PassNull \/ ScoreRow

InitScore == UInit /\ SOff /\ COff

SpecScore == InitScore /\ [][ScoreNext]_vars

(***************************************************************************)
(* Inputs of the service: callers, Authorization headers, uploaded files.  *)
(***************************************************************************)
Uid1 == <<"u","1">>
Uid2 == <<"u","2">>
Tok1 == <<"t","1">>
Tok2 == <<"t","2">>

BearerPrefix == <<"B","e","a","r","e","r"," ">>

\* The Authorization header values: none (the empty text), another scheme,
\* a bearer token that fails verification, and the tokens of two users.
AuthHeaders == {
    <<>>,
    <<"B","a","s","i","c"," ","t","1">>,
    <<"B","e","a","r","e","r"," ","b","a","d">>,
    <<"B","e","a","r","e","r"," ","t","1">>,
    <<"B","e","a","r","e","r"," ","t","2">> }

TxtRecycledA4Paper == <<"R","e","c","y","c","l","e","d"," ","A","4"," ","P","a","p","e","r">>
TxtPlasticBag == <<"P","l","a","s","t","i","c"," ","B","a","g">>
TxtKeepBuying == <<"K","e","e","p"," ","b","u","y","i","n","g">>

\* The CSV example of the README.
FileReadme == [
    originalname |-> <<"p","r","o","c","u","r","e","m","e","n","t",".","c","s","v">>,
    headers |-> << <<"p","r","o","d","u","c","t">>, <<"q","u","a","n","t","i","t","y">>, <<"p","r","i","c","e">> >>,
    rows |-> << <<TxtRecycledA4Paper, <<"1","0","0">>, <<"2","5",".","0","0">> >>,
                <<TxtDisposablePlasticCups, <<"2","0","0">>, <<"1","5",".","0","0">> >>,
                <<TxtLedLightBulbs, <<"5","0">>, <<"1","2","0",".","0","0">> >> >> ]

\* A CSV whose columns and file name carry values a client might try to pass
\* for server-set fields: a "Suggestion" and a "UserId" column holding
\* another user's id, and that id as the file name.
FileClientFields == [
    originalname |-> Uid2,
    headers |-> << <<"P","r","o","d","u","c","t">>, <<"S","u","g","g","e","s","t","i","o","n">>, <<"U","s","e","r","I","d">> >>,
    rows |-> << <<TxtPlasticBag, TxtKeepBuying, Uid2>>,
                <<TxtLedLightBulbs, TxtKeepBuying, Uid2>>,
                <<TxtDisposablePlasticCups, <<>>, Uid1>> >> ]

\* A CSV whose product column is named "Item".
FileItemAlias == [
    originalname |-> <<"i","t","e","m","s",".","c","s","v">>,
    headers |-> << <<"I","t","e","m">> >>,
    rows |-> << <<TxtRecycledPaper>> >> ]

\* A CSV with a header line and no data row, and a file of zero bytes.
FileHeaderOnly == [
    originalname |-> <<"e",".","c","s","v">>,
    headers |-> << <<"p","r","o","d","u","c","t">> >>,
    rows |-> <<>> ]

FileZeroBytes == [
    originalname |-> <<"z",".","c","s","v">>,
    headers |-> <<>>,
    rows |-> <<>> ]

\* The README's example with its header typed in another letter case.
FileReadmeUpper ==
  [ originalname |-> FileReadme.originalname,
    headers |-> << <<"P","r","o","d","u","c","t">>,
                   <<"Q","U","A","N","T","I","T","Y">>,
                   <<"P","r","i","c","e">> >>,
    rows |-> FileReadme.rows ]

\* Rows whose number of cells differs from the header's: a short first row
\* and a long second row whose product cell is empty.
FileRagged ==
  [ originalname |-> <<"r",".","c","s","v">>,
    headers |-> << KeyProduct, KeyQuantity >>,
    rows |-> << << <<"O","R","G","A","N","I","C"," ","P","a","p","e","r">> >>,
                << <<>>, <<"1","0","0">>, <<"7">> >> >> ]

\* One row whose score is exactly 40: 50 + 15 (organic) - 25 (disposable).
FileBoundary ==
  [ originalname |-> <<"b",".","c","s","v">>,
    headers |-> << KeyProduct >>,
    rows |-> << << <<"O","r","g","a","n","i","c"," ","D","i","s","p","o","s","a","b","l","e">> >> >> ]

Files ==
  <<FileReadme, FileClientFields, FileItemAlias, FileHeaderOnly, FileZeroBytes,
    FileReadmeUpper, FileRagged, FileBoundary>>

\* Messages of the exceptions a failing stream or collaborator raises.
ExceptionDetails == {"socket hang up", "quota exceeded"}

\* The texts the completion service answers with (after trim()).
SummaryText == <<"M","i","x","e","d"," ","i","m","p","a","c","t",".">>
AltText == <<"J","u","t","e"," ","b","a","g">>

(***************************************************************************)
(* Requests.                                                               *)
(***************************************************************************)
NoUser == [set |-> FALSE, uid |-> <<>>]
NoResult == [fileName |-> <<>>, averageScore |-> 0, summary |-> <<>>, items |-> <<>>]
NoCalls == [verify |-> 0, summary |-> 0, alt |-> 0, insert |-> 0, query |-> 0]

\* A request as Express hands it to the first middleware.  file = 0: no
\* multipart field 'file'; otherwise the index of the uploaded file.
NewRequest(kind, authorization, file) == [
    kind |-> kind,
    authorization |-> authorization,
    file |-> file,
    currentUser |-> NoUser,
    pc |-> "middleware",
    emitted |-> 0,
    results |-> <<>>,
    summary |-> <<>>,
    pending |-> {},
    finalResult |-> NoResult,
    status |-> 0,
    error |-> "",
    body |-> NoResult,
    history |-> <<>>,
    sent |-> 0,
    calls |-> NoCalls,
    failed |-> "",
    cause |-> "",
    seen |-> 0 ]

\* Fields of a request beyond those of the code: sent counts the responses,
\* calls the collaborator calls issued, failed names the first stage that
\* failed and cause its exception's message, seen is the size of the
\* collection when a snapshot was taken.
Req(r) == reqs[r]
Set(r, new) == reqs' = [reqs EXCEPT ![r] = new]

\* res.status(code).json({ error }) / res.json(value)
RespondError(q, code, message) ==
    [q EXCEPT !.status = code, !.error = message, !.sent = @ + 1, !.pc = "done"]

(***************************************************************************)
(* decodeIDToken                                                           *)
(***************************************************************************)
\* authorization.startsWith('Bearer ')
StartsWithBearer(h) ==
    /\ Len(h) >= Len(BearerPrefix)
    /\ SubSeq(h, 1, Len(BearerPrefix)) = BearerPrefix

\* authorization.split('Bearer ')[1], for a header that starts with 'Bearer '
SplitBearer(h) ==
    LET rest == SubSeq(h, Len(BearerPrefix) + 1, Len(h))
        again == {i \in 1..(Len(rest) - Len(BearerPrefix) + 1) :
                    SubSeq(rest, i, i + Len(BearerPrefix) - 1) = BearerPrefix}
    IN  IF again = {} THEN rest
        ELSE SubSeq(rest, 1, (CHOOSE i \in again : \A j \in again : i <= j) - 1)

\* admin.auth().verifyIdToken: the identity provider's verdict on a token
TokenValid(idToken) == idToken \in {Tok1, Tok2}
TokenUid(idToken) == IF idToken = Tok1 THEN Uid1 ELSE Uid2

\* The request after the middleware: currentUser is attached when the header
\* carries a bearer token that verifies; next() is called in every case.
AfterDecodeTrusting(q) ==
    LET idToken == SplitBearer(q.authorization) IN
    [q EXCEPT !.currentUser = [set |-> TRUE, uid |-> TokenUid(idToken)],
              !.pc = "handler"]

AfterDecode(q) ==
    IF StartsWithBearer(q.authorization)
    THEN LET idToken == SplitBearer(q.authorization) IN
         IF TokenValid(idToken)
         THEN [q EXCEPT !.currentUser = [set |-> TRUE, uid |-> TokenUid(idToken)],
                        !.calls.verify = @ + 1,
                        !.pc = "handler"]
         ELSE [q EXCEPT !.calls.verify = @ + 1, !.pc = "handler"]
    ELSE [q EXCEPT !.pc = "handler"]

\* A request arrives.
Receive ==
    /\ Len(reqs) < MaxRequests
    /\ \E kind \in {"upload", "history"}, h \in AuthHeaders, f \in 0..Len(Files) :
         /\ kind = "history" => f = 0
         /\ reqs' = Append(reqs, NewRequest(kind, h, f))
    /\ UNCHANGED <<db, clock, uVars, app>>

decodeIDToken(r) ==
    /\ Req(r).pc = "middleware"
    /\ Set(r, AfterDecode(Req(r)))
    /\ UNCHANGED <<db, clock, uVars, app>>

(***************************************************************************)
(* POST /api/upload                                                        *)
(***************************************************************************)
File(q) == Files[q.file]

\* results.push({ ...data, greenScore: score })
ItemOf(data) == [fields |-> data.fields, greenScore |-> calculateGreenScore(data)]

\* results.filter(item => item.greenScore <= 40)
LowScoringUpTo40(results) == {i \in 1..Len(results) : results[i].greenScore <= 40}

\* results.filter(item => item.greenScore < 40), as positions in results
LowScoringItems(results) == {i \in 1..Len(results) : results[i].greenScore < 40}

RECURSIVE TotalScore(_, _)
\* results.reduce((acc, item) => acc + item.greenScore, 0)
TotalScore(results, n) ==
    IF n = 0 THEN 0 ELSE TotalScore(results, n - 1) + results[n].greenScore

\* Math.floor(x / n) in the place of Math.round(x / n)
RoundDivDown(x, n) == x \div n

\* Math.round(x / n) for x >= 0 and n > 0: halves round up
RoundDiv(x, n) == (2 * x + n) \div (2 * n)

\* results.length > 0 ? Math.round(totalScore / results.length) : 0
AverageScore(results) ==
    IF Len(results) > 0 THEN RoundDiv(TotalScore(results, Len(results)), Len(results)) ELSE 0

\* A handler that sends the result when add() is issued, without awaiting
\* it.
IssueInsertNotAwaited(q) ==
    [q EXCEPT !.finalResult = [fileName |-> File(q).originalname,
                               averageScore |-> AverageScore(q.results),
                               summary |-> q.summary,
                               items |-> q.results],
              !.calls.insert = @ + 1,
              !.status = 200,
              !.sent = @ + 1,
              !.pc = "insert"]

\* finalResult, and with it the add() to the collection is issued: the
\* request now waits for Firestore.
IssueInsert(q) ==
    [q EXCEPT !.finalResult = [fileName |-> File(q).originalname,
                               averageScore |-> AverageScore(q.results),
                               summary |-> q.summary,
                               items |-> q.results],
              !.calls.insert = @ + 1,
              !.pc = "insert"]

\* The route handler up to the start of the CSV stream.
UploadHandler(r) ==
    /\ Req(r).kind = "upload"
    /\ Req(r).pc = "handler"
    /\ Set(r, IF ~Req(r).currentUser.set
              THEN RespondError(Req(r), 401, "Unauthorized. You must be logged in to upload.")
              ELSE IF Req(r).file = 0
              THEN RespondError(Req(r), 400, "No file uploaded.")
              ELSE [Req(r) EXCEPT !.pc = "parsing"])
    /\ UNCHANGED <<db, clock, uVars, app>>

\* A 'data' handler that puts the new item first: results.unshift(...)
OnDataUnshift(r) ==
    /\ Req(r).pc = "parsing"
    /\ Req(r).emitted < Len(File(Req(r)).rows)
    /\ \E data \in {ParseRow(File(Req(r)).headers, File(Req(r)).rows[Req(r).emitted + 1])} :
         Set(r, [Req(r) EXCEPT !.emitted = @ + 1,
                               !.results = <<ItemOf(data)>> \o @])
    /\ UNCHANGED <<db, clock, uVars, app>>

\* A results array declared outside the route handler: the item is pushed
\* onto the list every upload that is being parsed reads.
OnDataShared(r) ==
    /\ Req(r).pc = "parsing"
    /\ Req(r).emitted < Len(File(Req(r)).rows)
    /\ \E data \in {ParseRow(File(Req(r)).headers, File(Req(r)).rows[Req(r).emitted + 1])} :
         reqs' = [k \in 1..Len(reqs) |->
                    IF k = r
                    THEN [Req(r) EXCEPT !.emitted = @ + 1,
                                        !.results = Append(@, ItemOf(data))]
                    ELSE IF Req(k).pc = "parsing"
                    THEN [Req(k) EXCEPT !.results = Append(@, ItemOf(data))]
                    ELSE Req(k)]
    /\ UNCHANGED <<db, clock, uVars, app>>

\* .on('data'): the next row is scored and pushed.
OnData(r) ==
    /\ Req(r).pc = "parsing"
    /\ Req(r).emitted < Len(File(Req(r)).rows)
    /\ \E data \in {ParseRow(File(Req(r)).headers, File(Req(r)).rows[Req(r).emitted + 1])} :
         Set(r, [Req(r) EXCEPT !.emitted = @ + 1,
                               !.results = Append(@, ItemOf(data))])
    /\ UNCHANGED <<db, clock, uVars, app>>

\* .on('error'): the stream fails before its end.
OnError(r) ==
    /\ Req(r).pc = "parsing"
    /\ \E detail \in ExceptionDetails :
         Set(r, [RespondError(Req(r), 500, "Failed to process CSV file.")
                   EXCEPT !.failed = "parse", !.cause = detail])
    /\ UNCHANGED <<db, clock, uVars, app>>

\* A summary requested from the 'data' handler: before the stream has ended.
OnEndEarly(r) ==
    /\ Req(r).pc = "parsing"
    /\ Set(r, [Req(r) EXCEPT !.calls.summary = @ + 1, !.pc = "summary"])
    /\ UNCHANGED <<db, clock, uVars, app>>

\* An 'end' handler that answers with the CSV error when no row was read.
OnEndRejectEmpty(r) ==
    /\ Req(r).pc = "parsing"
    /\ Req(r).emitted = Len(File(Req(r)).rows)
    /\ Set(r, IF Req(r).results = <<>>
              THEN RespondError(Req(r), 500, "Failed to process CSV file.")
              ELSE [Req(r) EXCEPT !.calls.summary = @ + 1, !.pc = "summary"])
    /\ UNCHANGED <<db, clock, uVars, app>>

\* .on('end'): the summary completion is requested.
OnEnd(r) ==
    /\ Req(r).pc = "parsing"
    /\ Req(r).emitted = Len(File(Req(r)).rows)
    /\ Set(r, [Req(r) EXCEPT !.calls.summary = @ + 1, !.pc = "summary"])
    /\ UNCHANGED <<db, clock, uVars, app>>

\* The summary completion resolves: one alternative request is issued for
\* each low-scoring item; with none, Promise.all([]) resolves at once.
SummaryOk(r) ==
    /\ Req(r).pc = "summary"
    /\ LET low == LowScoringItems(Req(r).results)
           q == [Req(r) EXCEPT !.summary = SummaryText,
                               !.pending = low,
                               !.calls.alt = @ + Cardinality(low),
                               !.pc = "alts"]
       IN  Set(r, IF low = {} THEN IssueInsert(q) ELSE q)
    /\ UNCHANGED <<db, clock, uVars, app>>

\* A handler that goes on without a summary when the summary completion
\* rejects.
SummaryFailDegraded(r) ==
    /\ Req(r).pc = "summary"
    /\ LET low == LowScoringItems(Req(r).results)
           q == [Req(r) EXCEPT !.failed = "summary",
                               !.pending = low,
                               !.calls.alt = @ + Cardinality(low),
                               !.pc = "alts"]
       IN  Set(r, IF low = {} THEN IssueInsert(q) ELSE q)
    /\ UNCHANGED <<db, clock, uVars, app>>

\* The summary completion rejects: the catch block answers.
SummaryFail(r) ==
    /\ Req(r).pc = "summary"
    /\ \E detail \in ExceptionDetails :
         Set(r, [RespondError(Req(r), 500, "Failed to get AI insights or save data.")
                   EXCEPT !.failed = "summary", !.cause = detail])
    /\ UNCHANGED <<db, clock, uVars, app>>

\* A handler that awaits the first alternative to resolve, Promise.race in
\* the place of Promise.all.
AltOkRace(r) ==
    /\ \E i \in Req(r).pending :
         LET q == [Req(r) EXCEPT
                     !.results[i].fields = Put(@, KeySuggestion, AltText),
                     !.pending = @ \ {i}]
         IN  Set(r, IF q.pc = "alts" THEN IssueInsert(q) ELSE q)
    /\ UNCHANGED <<db, clock, uVars, app>>

\* One alternative completion resolves: item.suggestion is set; when it was
\* the last one outstanding and none has failed, Promise.all resolves.
AltOk(r) ==
    /\ \E i \in Req(r).pending :
         LET q == [Req(r) EXCEPT
                     !.results[i].fields = Put(@, KeySuggestion, AltText),
                     !.pending = @ \ {i}]
         IN  Set(r, IF q.pc = "alts" /\ q.pending = {} THEN IssueInsert(q) ELSE q)
    /\ UNCHANGED <<db, clock, uVars, app>>

\* One alternative completion rejects: Promise.all rejects with it (the
\* first rejection only) and the catch block answers; the other requests
\* stay in flight.
AltFailSettled(r) ==
    /\ \E i \in Req(r).pending :
         LET q == [Req(r) EXCEPT !.pending = @ \ {i},
                                 !.failed = IF @ = "" THEN "alt" ELSE @]
         IN  Set(r, IF q.pc = "alts" /\ q.pending = {} THEN IssueInsert(q) ELSE q)
    /\ UNCHANGED <<db, clock, uVars, app>>

\* A handler without a catch around Promise.all: the rejection is not
\* answered.
AltFailUnanswered(r) ==
    /\ \E i \in Req(r).pending, detail \in ExceptionDetails :
         Set(r, [Req(r) EXCEPT !.pending = @ \ {i},
                               !.failed = IF @ = "" THEN "alt" ELSE @,
                               !.cause = IF Req(r).failed = "" THEN detail ELSE @])
    /\ UNCHANGED <<db, clock, uVars, app>>

AltFail(r) ==
    /\ \E i \in Req(r).pending, detail \in ExceptionDetails :
         LET q == [Req(r) EXCEPT !.pending = @ \ {i},
                                 !.failed = IF @ = "" THEN "alt" ELSE @,
                                 !.cause = IF Req(r).failed = "" THEN detail ELSE @]
         IN  Set(r, IF q.pc = "alts"
                    THEN RespondError(q, 500, "Failed to get AI insights or save data.")
                    ELSE q)
    /\ UNCHANGED <<db, clock, uVars, app>>

(***************************************************************************)
(* Firestore: the collection 'analyses'.                                   *)
(***************************************************************************)
\* admin.firestore.FieldValue.serverTimestamp(): the commit time, never
\* earlier than a timestamp already assigned.
ServerTimestamps == IF db = <<>> THEN {clock + 1} ELSE {clock, clock + 1}

\* { ...finalResult, userId: req.currentUser.uid, createdAt: <timestamp> }
DocumentOwnerFromRow(q, r, ts) == [
    id |-> r,
    fileName |-> q.finalResult.fileName,
    averageScore |-> q.finalResult.averageScore,
    summary |-> q.finalResult.summary,
    items |-> q.finalResult.items,
    userId |-> IF q.finalResult.items # <<>> /\ Has(q.finalResult.items[1].fields, KeyUserid)
               THEN Get(q.finalResult.items[1].fields, KeyUserid)
               ELSE q.currentUser.uid,
    createdAt |-> ts ]

Document(q, r, ts) == [
    id |-> r,
    fileName |-> q.finalResult.fileName,
    averageScore |-> q.finalResult.averageScore,
    summary |-> q.finalResult.summary,
    items |-> q.finalResult.items,
    userId |-> q.currentUser.uid,
    createdAt |-> ts ]

\* A handler that sends the stored document in the place of finalResult.
InsertOkSendsRecord(r) ==
    /\ Req(r).pc = "insert"
    /\ \E ts \in ServerTimestamps :
         /\ db' = Append(db, Document(Req(r), r, ts))
         /\ clock' = ts
         /\ Set(r, [Req(r) EXCEPT !.status = 200,
                                  !.body = Document(Req(r), r, ts),
                                  !.sent = @ + 1,
                                  !.pc = "done"])
    /\ UNCHANGED <<uVars, app>>

\* add() resolves: the document is stored and the result is sent.
InsertOk(r) ==
    /\ Req(r).pc = "insert"
    /\ \E ts \in ServerTimestamps :
         /\ db' = Append(db, Document(Req(r), r, ts))
         /\ clock' = ts
    /\ Set(r, [Req(r) EXCEPT !.status = 200,
                             !.body = [Req(r).finalResult EXCEPT !.items = Req(r).results],
                             !.sent = @ + 1,
                             !.pc = "done"])
    /\ UNCHANGED <<uVars, app>>

\* A catch block that sends the exception's message: error.message
InsertFailEcho(r) ==
    /\ Req(r).pc = "insert"
    /\ \E detail \in ExceptionDetails :
         Set(r, [RespondError(Req(r), 500, detail)
                   EXCEPT !.failed = "insert", !.cause = detail])
    /\ UNCHANGED <<db, clock, uVars, app>>

\* add() rejects: nothing is stored and the catch block answers.
InsertFail(r) ==
    /\ Req(r).pc = "insert"
    /\ \E detail \in ExceptionDetails :
         Set(r, [RespondError(Req(r), 500, "Failed to get AI insights or save data.")
                   EXCEPT !.failed = "insert", !.cause = detail])
    /\ UNCHANGED <<db, clock, uVars, app>>

(***************************************************************************)
(* GET /api/history                                                        *)
(***************************************************************************)
\* .where('userId', '==', uid)
OwnedByAnyone(docs, uid) == {i \in 1..Len(docs) : TRUE}
OwnedBy(docs, uid) == {i \in 1..Len(docs) : docs[i].userId = uid}

\* The order of .orderBy('createdAt', 'asc')
BeforeAscending(a, b) ==
    \/ a.createdAt < b.createdAt
    \/ a.createdAt = b.createdAt /\ a.id < b.id

\* The order of .orderBy('createdAt', 'desc'): later timestamp first, equal
\* timestamps by document id, descending.
Before(a, b) ==
    \/ a.createdAt > b.createdAt
    \/ a.createdAt = b.createdAt /\ a.id > b.id

RECURSIVE Ordered(_, _)
\* The documents at positions idx of docs, in query order.
Ordered(docs, idx) ==
    IF idx = {} THEN <<>>
    ELSE LET first == CHOOSE i \in idx : \A j \in idx \ {i} : Before(docs[i], docs[j])
         IN  <<docs[first]>> \o Ordered(docs, idx \ {first})

\* data.createdAt.toDate().toISOString(): the timestamp at millisecond
\* precision, as text
toISOString(ts) == [isoMillis |-> ts \div TicksPerMilli]

\* { id: doc.id, ...data, createdAt: <ISO string> }
HistoryEntry(doc) == [
    id |-> doc.id,
    fileName |-> doc.fileName,
    averageScore |-> doc.averageScore,
    summary |-> doc.summary,
    items |-> doc.items,
    userId |-> doc.userId,
    createdAt |-> toISOString(doc.createdAt) ]

\* snapshot.docs.map(...), or [] for an empty snapshot
HistoryOf(docs, uid) ==
    LET snapshot == Ordered(docs, OwnedBy(docs, uid))
    IN  [i \in 1..Len(snapshot) |-> HistoryEntry(snapshot[i])]

\* The route handler up to the query.
HistoryHandler(r) ==
    /\ Req(r).kind = "history"
    /\ Req(r).pc = "handler"
    /\ Set(r, IF ~Req(r).currentUser.set
              THEN RespondError(Req(r), 401, "Unauthorized. You must be logged in to view history.")
              ELSE [Req(r) EXCEPT !.calls.query = @ + 1, !.pc = "query"])
    /\ UNCHANGED <<db, clock, uVars, app>>

\* get() resolves with the snapshot: the history is sent.
QueryOk(r) ==
    /\ Req(r).pc = "query"
    /\ Set(r, [Req(r) EXCEPT !.status = 200,
                             !.history = HistoryOf(db, Req(r).currentUser.uid),
                             !.seen = Len(db),
                             !.sent = @ + 1,
                             !.pc = "done"])
    /\ UNCHANGED <<db, clock, uVars, app>>

\* get() rejects: the catch block answers.
QueryFail(r) ==
    /\ Req(r).pc = "query"
    /\ \E detail \in ExceptionDetails :
         Set(r, [RespondError(Req(r), 500, "Failed to fetch analysis history.")
                   EXCEPT !.failed = "query", !.cause = detail])
    /\ UNCHANGED <<db, clock, uVars, app>>

(***************************************************************************)
(* The service.                                                            *)
(***************************************************************************)
Init == UOff /\ SOff /\ COff

Next ==
    \/ Receive
    \/ \E r \in 1..Len(reqs) : decodeIDToken(r)
    \/ \E r \in 1..Len(reqs) : UploadHandler(r)
    \/ \E r \in 1..Len(reqs) : OnData(r)
    \/ \E r \in 1..Len(reqs) : OnError(r)
    \/ \E r \in 1..Len(reqs) : OnEnd(r)
    \/ \E r \in 1..Len(reqs) : SummaryOk(r)
    \/ \E r \in 1..Len(reqs) : SummaryFail(r)
    \/ \E r \in 1..Len(reqs) : AltOk(r)
    \/ \E r \in 1..Len(reqs) : AltFail(r)
    \/ \E r \in 1..Len(reqs) : InsertOk(r)
    \/ \E r \in 1..Len(reqs) : InsertFail(r)
    \/ \E r \in 1..Len(reqs) : HistoryHandler(r)
    \/ \E r \in 1..Len(reqs) : QueryOk(r)
    \/ \E r \in 1..Len(reqs) : QueryFail(r)

Spec == Init /\ [][Next]_vars

(***************************************************************************)
(* The service when the event loop runs every callback that is due, the    *)
(* CSV stream ends or fails, and every collaborator call settles.          *)
(***************************************************************************)
\* A step of request r: a callback of the request that is due, or the
\* settling of a call it waits for.
StepOf(r) ==
    /\ r \in 1..Len(reqs)
    /\ \/ decodeIDToken(r)
       \/ UploadHandler(r)
       \/ OnData(r)
       \/ OnError(r)
       \/ OnEnd(r)
       \/ SummaryOk(r)
       \/ SummaryFail(r)
       \/ AltOk(r)
       \/ AltFail(r)
       \/ InsertOk(r)
       \/ InsertFail(r)
       \/ HistoryHandler(r)
       \/ QueryOk(r)
       \/ QueryFail(r)

\* The fair specification follows the requests that arrive while one
\* request less than MaxRequests is in the service.
MaxFairRequests == MaxRequests - 1

ReceiveFair ==
    /\ Len(reqs) < MaxFairRequests
    /\ \E kind \in {"upload", "history"}, h \in AuthHeaders, f \in 0..Len(Files) :
         /\ kind = "history" => f = 0
         /\ reqs' = Append(reqs, NewRequest(kind, h, f))
    /\ UNCHANGED <<db, clock, uVars, app>>

NextFair ==
    \/ ReceiveFair
    \/ \E r \in 1..Len(reqs) : decodeIDToken(r)
    \/ \E r \in 1..Len(reqs) : UploadHandler(r)
    \/ \E r \in 1..Len(reqs) : OnData(r)
    \/ \E r \in 1..Len(reqs) : OnError(r)
    \/ \E r \in 1..Len(reqs) : OnEnd(r)
    \/ \E r \in 1..Len(reqs) : SummaryOk(r)
    \/ \E r \in 1..Len(reqs) : SummaryFail(r)
    \/ \E r \in 1..Len(reqs) : AltOk(r)
    \/ \E r \in 1..Len(reqs) : AltFail(r)
    \/ \E r \in 1..Len(reqs) : InsertOk(r)
    \/ \E r \in 1..Len(reqs) : InsertFail(r)
    \/ \E r \in 1..Len(reqs) : HistoryHandler(r)
    \/ \E r \in 1..Len(reqs) : QueryOk(r)
    \/ \E r \in 1..Len(reqs) : QueryFail(r)

Fairness == \A r \in 1..MaxFairRequests : WF_vars(StepOf(r))

SpecFair == Init /\ [][NextFair]_vars /\ Fairness

(***************************************************************************)
(* The history route over a collection filled by uploads of earlier        *)
(* requests: each such upload is taken as one step, from its arrival to    *)
(* its stored record, and leaves no request behind.                        *)
(***************************************************************************)
\* Document ids are generated by Firestore and stand in no relation to the
\* order of insertion: a new id lies below or above the ones in use.
EarlierIds ==
    IF db = <<>> THEN {0}
    ELSE LET ids == {db[i].id : i \in 1..Len(db)}
         IN  { (CHOOSE a \in ids : \A b \in ids : a <= b) - 1,
               (CHOOSE a \in ids : \A b \in ids : a >= b) + 1 }

\* A whole successful upload of the header-only CSV by a verified caller.
EarlierUpload ==
    /\ Len(db) < MaxEarlier
    /\ \E h \in AuthHeaders, id \in EarlierIds, ts \in ServerTimestamps :
         LET q0 == AfterDecode(NewRequest("upload", h, 4))
             q == IssueInsert([q0 EXCEPT !.summary = SummaryText])
         IN  /\ q0.currentUser.set
             /\ db' = Append(db, Document(q, id, ts))
             /\ clock' = ts
    /\ UNCHANGED <<reqs, uVars, app>>

\* The history specification spends one of the requests on the uploads
\* that fill the collection.
MaxHistoryRequests == MaxRequests - 1

ReceiveHistory ==
    /\ Len(reqs) < MaxHistoryRequests
    /\ \E h \in AuthHeaders : reqs' = Append(reqs, NewRequest("history", h, 0))
    /\ UNCHANGED <<db, clock, uVars, app>>

NextHistory ==
    \/ EarlierUpload
    \/ ReceiveHistory
    \/ \E r \in 1..Len(reqs) : decodeIDToken(r)
    \/ \E r \in 1..Len(reqs) : HistoryHandler(r)
    \/ \E r \in 1..Len(reqs) : QueryOk(r)
    \/ \E r \in 1..Len(reqs) : QueryFail(r)

SpecHistory == Init /\ [][NextHistory]_vars

(***************************************************************************)
(* The client: the App component, its auth listener and its requests.      *)
(***************************************************************************)
\* response.data of GET /api/history for a caller: the caller's records,
\* possibly none.
HistoryData(uid) == { <<>>, << [id |-> 1, userId |-> uid] >> }

\* fetchHistory(currentUser) up to its first await: the request is on its
\* way, waiting for currentUser.getIdToken().
fetchHistory(a, uid) ==
    [a EXCEPT !.fetches = @ \cup {[id |-> a.issued + 1, uid |-> uid,
                                   session |-> a.authEvents, stage |-> "token"]},
              !.issued = @ + 1]

\* useEffect: the component is mounted and the listener subscribed.
InitClient ==
    /\ UOff
    /\ SOff
    /\ app = [AppInitial EXCEPT !.mounted = TRUE]

\* onAuthStateChanged's callback with a user: setUser(currentUser) and
\* fetchHistory(currentUser).
AuthSignedIn ==
    /\ app.mounted
    /\ ~app.user.set
    /\ app.authEvents < MaxAuthEvents
    /\ app.issued < MaxClientCalls
    /\ \E uid \in {Uid1, Uid2} :
         app' = fetchHistory([app EXCEPT !.user = [set |-> TRUE, uid |-> uid],
                                         !.authEvents = @ + 1], uid)
    /\ UNCHANGED <<uVars, sVars>>

\* onAuthStateChanged's callback with null: setUser(null), setHistory([]).
AuthSignedOut ==
    /\ app.mounted
    /\ app.user.set
    /\ app.authEvents < MaxAuthEvents
    /\ app' = [app EXCEPT !.user = [set |-> FALSE, uid |-> <<>>],
                          !.history = <<>>,
                          !.source = [set |-> FALSE, uid |-> <<>>, session |-> 0],
                          !.authEvents = @ + 1]
    /\ UNCHANGED <<uVars, sVars>>

\* getIdToken() of a history request resolves: the GET is sent.
TokenResolved ==
    /\ \E f \in app.fetches :
         /\ f.stage = "token"
         /\ app' = [app EXCEPT !.fetches = (@ \ {f}) \cup {[f EXCEPT !.stage = "request"]}]
    /\ UNCHANGED <<uVars, sVars>>

\* The GET resolves: setHistory(response.data).
HistoryResponse ==
    /\ \E f \in app.fetches :
         /\ f.stage = "request"
         /\ \E data \in HistoryData(f.uid) :
              app' = [app EXCEPT !.history = data,
                                 !.source = [set |-> TRUE, uid |-> f.uid, session |-> f.session],
                                 !.fetches = @ \ {f}]
    /\ UNCHANGED <<uVars, sVars>>

\* getIdToken() or the GET rejects: the catch block logs, no state is set.
HistoryFailed ==
    /\ \E f \in app.fetches : app' = [app EXCEPT !.fetches = @ \ {f}]
    /\ UNCHANGED <<uVars, sVars>>

\* handleUpload with a file selected, up to its first await; the closure
\* keeps the user of the render it was created in.
handleUpload ==
    /\ app.mounted
    /\ app.user.set
    /\ app.issued < MaxClientCalls
    /\ app' = [app EXCEPT !.uploads = @ \cup {[id |-> app.issued + 1, uid |-> app.user.uid,
                                                stage |-> "token"]},
                          !.issued = @ + 1]
    /\ UNCHANGED <<uVars, sVars>>

\* user.getIdToken() of an upload resolves: the POST is sent.
UploadTokenResolved ==
    /\ \E u \in app.uploads :
         /\ u.stage = "token"
         /\ app' = [app EXCEPT !.uploads = (@ \ {u}) \cup {[u EXCEPT !.stage = "post"]}]
    /\ UNCHANGED <<uVars, sVars>>

\* The POST resolves: setAnalysisResult(response.data), fetchHistory(user).
UploadResponse ==
    /\ app.issued < MaxClientCalls
    /\ \E u \in app.uploads :
         /\ u.stage = "post"
         /\ app' = fetchHistory([app EXCEPT !.uploads = @ \ {u}], u.uid)
    /\ UNCHANGED <<uVars, sVars>>

\* getIdToken() or the POST rejects: setError(...), no history request.
UploadFailed ==
    /\ \E u \in app.uploads : app' = [app EXCEPT !.uploads = @ \ {u}]
    /\ UNCHANGED <<uVars, sVars>>

NextClient ==
    \/ AuthSignedIn
    \/ AuthSignedOut
    \/ TokenResolved
    \/ HistoryResponse
    \/ HistoryFailed
    \/ handleUpload
    \/ UploadTokenResolved
    \/ UploadResponse
    \/ UploadFailed

SpecClient == InitClient /\ [][NextClient]_vars

(***************************************************************************)
(* Properties of the scoring run.                                          *)
(***************************************************************************)

\* The scored row has a non-empty product.
UScoredWithProduct == uPc = "scored" /\ ~uItem.isNull /\ ~ProductFalsy(uItem)

\* The reference of the scoring rules, stated on the text as typed:
\* keyword kw occurs at some position of text, letter case ignored.
RefOccurs(kw, text) ==
    \E k \in 1..Len(text) :
        /\ k + Len(kw) - 1 <= Len(text)
        /\ \A j \in 1..Len(kw) : toLowerChar(text[k + j - 1]) = kw[j]

RefAdditive == <<
    <<KwRecycled, 20>>, <<KwCompostable, 20>>, <<KwOrganic, 15>>,
    <<KwReusable, 15>>, <<KwLed, 10>>, <<KwLocal, 10>>,
    <<KwDisposable, 0 - 25>>, <<KwSingleUse, 0 - 30>> >>

RECURSIVE RefSum(_, _)
RefSum(text, n) ==
    IF n = 0 THEN 0
    ELSE RefSum(text, n - 1)
         + (IF RefOccurs(RefAdditive[n][1], text) THEN RefAdditive[n][2] ELSE 0)

RefScore(text) ==
    LET raw == 50 + RefSum(text, Len(RefAdditive))
                  - (IF RefOccurs(KwPlastic, text) /\ ~RefOccurs(KwReusable, text)
                     THEN 30 ELSE 0)
    IN  IF raw < 0 THEN 0 ELSE IF raw > 100 THEN 100 ELSE raw

\* C1: calculateGreenScore returns an integer between 0 and 100 for every
\* row: product present, empty or absent, and for no row at all.
C1_ScoreInRange == uPc = "scored" => (uScore \in Int /\ 0 <= uScore /\ uScore <= 100)

\* A scored row whose rules add up to less than 0, clamped to 0.
C1_Witness ==
    /\ UScoredWithProduct
    /\ RuleSum(toLowerCase(Get(uItem.fields, KeyProduct))) < 0
    /\ uScore = 0

\* C2: for a row with a non-empty product the score is the reference (the
\* clamped sum of the independent substring rules), it is the same for the
\* product in upper case and for the row without its other columns, and the
\* documented examples have the documented scores.
C2_ScoreIsReference ==
    UScoredWithProduct =>
        LET text == Get(uItem.fields, KeyProduct) IN
        /\ uScore = RefScore(text)
        /\ uScore = calculateGreenScore(Obj(<< <<KeyProduct, toUpperCase(text)>> >>))
        /\ uScore = calculateGreenScore(Obj(<< <<KeyProduct, toLowerCase(text)>> >>))
        /\ text = TxtReusablePlasticBottle => uScore = 65
        /\ text = TxtLedLightBulbs => uScore = 60
        /\ text = TxtDisposablePlasticCups => uScore = 0
        /\ text = TxtDisposableSingleUse => uScore = 0
        /\ text = TxtDisposableSingleUse => RuleSum(toLowerCase(text)) = 50 - 55

\* "Reusable Plastic Bottle" scored in a row that has a second column.
C2_Witness ==
    /\ UScoredWithProduct
    /\ Get(uItem.fields, KeyProduct) = TxtReusablePlasticBottle
    /\ Has(uItem.fields, KeyQuantity)
    /\ uScore = 65

\* C3: the score of a row whose product is "Recycled Paper" is 70.
C3_RecycledPaperIs70 ==
    (UScoredWithProduct /\ Get(uItem.fields, KeyProduct) = TxtRecycledPaper)
        => uScore = 70

\* C10: a row of a CSV whose product column is named "item" (in any letter
\* case) gets the score of the same row with that column named "product".
C10_ItemAliasScoredAsProduct ==
    (uPc = "scored" /\ ~uItem.isNull /\ Has(uItem.fields, <<"i","t","e","m">>))
        => uScore = calculateGreenScore(Obj(<< <<KeyProduct, Get(uItem.fields, <<"i","t","e","m">>)>> >>))

(***************************************************************************)
(* Properties of the service.                                              *)
(***************************************************************************)
Requests == 1..Len(reqs)
Docs == {db[i] : i \in 1..Len(db)}
DocsOf(r) == {d \in Docs : d.id = r}

\* The caller the identity provider vouches for, by Authorization header.
HeaderVerified(h) ==
    h \in { <<"B","e","a","r","e","r"," ","t","1">>, <<"B","e","a","r","e","r"," ","t","2">> }
HeaderSubject(h) ==
    IF h = <<"B","e","a","r","e","r"," ","t","1">> THEN <<"u","1">> ELSE <<"u","2">>

GreenScores(items) == [i \in 1..Len(items) |-> items[i].greenScore]

\* The item carries a suggestion: the property is set to a non-empty text.
Suggests(item) ==
    Has(item.fields, KeySuggestion) /\ Get(item.fields, KeySuggestion) # <<>>

\* C4: a successful upload of the README's CSV by an authenticated caller
\* returns three items with the scores 70, 0, 60 in input order and the
\* average score 43.
C4_ReadmeExample ==
    \A r \in Requests :
        (Req(r).kind = "upload" /\ Req(r).file = 1 /\ Req(r).status = 200)
            => /\ Len(Req(r).body.items) = 3
               /\ GreenScores(Req(r).body.items) = <<70, 0, 60>>
               /\ Req(r).body.averageScore = 43

\* C5: a request without a verified identity (no header, another scheme, a
\* token that fails verification) leaves the middleware for its handler,
\* is answered 401 there, with or without a file, upload or history, and
\* causes no completion call, no storage read and no storage write.
C5_UnauthorizedRejected ==
    \A r \in Requests :
        ~HeaderVerified(Req(r).authorization)
            => /\ Req(r).pc \in {"middleware", "handler", "done"}
               /\ Req(r).pc = "done" <=> Req(r).status = 401
               /\ Req(r).pc # "done" => (Req(r).status = 0 /\ Req(r).sent = 0)
               /\ Req(r).calls.summary = 0
               /\ Req(r).calls.alt = 0
               /\ Req(r).calls.insert = 0
               /\ Req(r).calls.query = 0
               /\ DocsOf(r) = {}

\* An upload with a file and a history request, both with a bearer token
\* that fails verification, both answered 401.
C5_Witness ==
    \E r, h \in Requests :
        /\ Req(r).kind = "upload" /\ Req(r).file # 0
        /\ Req(r).authorization = <<"B","e","a","r","e","r"," ","b","a","d">>
        /\ Req(r).status = 401
        /\ Req(h).kind = "history"
        /\ Req(h).authorization = <<"B","e","a","r","e","r"," ","b","a","d">>
        /\ Req(h).status = 401

\* C6: the userId of every persisted record is the subject of the verified
\* identity of the request that stored it, whatever the file name and the
\* CSV columns hold; and every successful upload has stored such a record.
C6_OwnerIsCaller ==
    /\ \A d \in Docs :
         /\ d.id \in Requests
         /\ HeaderVerified(Req(d.id).authorization)
         /\ d.userId = HeaderSubject(Req(d.id).authorization)
    /\ \A r \in Requests :
         (Req(r).kind = "upload" /\ Req(r).status = 200) => DocsOf(r) # {}

\* User u1 has stored the CSV whose UserId column and file name say u2.
C6_Witness ==
    \E d \in Docs :
        /\ Req(d.id).file = 2
        /\ d.fileName = Uid2
        /\ Get(d.items[1].fields, KeyUserid) = Uid2
        /\ HeaderSubject(Req(d.id).authorization) = Uid1
        /\ d.userId = Uid1

\* C7: a successful history response holds exactly the records that were
\* in the collection when the snapshot was taken and are owned by the
\* caller, each once, and none of another owner; it is the empty sequence
\* when there is none.
C7_HistoryIsOwnRecords ==
    \A r \in Requests :
        (Req(r).kind = "history" /\ Req(r).status = 200)
            => LET q == Req(r)
                   own == {i \in 1..q.seen : db[i].userId = HeaderSubject(q.authorization)}
               IN  /\ HeaderVerified(q.authorization)
                   /\ Len(q.history) = Cardinality(own)
                   /\ \A i \in own : \E k \in 1..Len(q.history) :
                        /\ q.history[k].id = db[i].id
                        /\ q.history[k].userId = db[i].userId
                        /\ q.history[k].fileName = db[i].fileName
                        /\ q.history[k].averageScore = db[i].averageScore
                        /\ q.history[k].summary = db[i].summary
                        /\ q.history[k].items = db[i].items
                   /\ own = {} => q.history = <<>>

\* A history of user u1 answered 200 and empty while the collection holds
\* a record of user u2.
C7_Witness ==
    \E r \in Requests :
        /\ Req(r).kind = "history"
        /\ Req(r).status = 200
        /\ HeaderSubject(Req(r).authorization) = Uid1
        /\ Req(r).seen = 1
        /\ db[1].userId = Uid2
        /\ Req(r).history = <<>>

\* A history of a user answered 200 with that user's record.
C7_WitnessOwn ==
    \E r \in Requests :
        /\ Req(r).kind = "history"
        /\ Req(r).status = 200
        /\ Len(Req(r).history) = 1

\* C8: an upload in which a stage has failed (the CSV stream, the summary
\* call, an alternative call, the insert) is answered with an error, once,
\* and the collection holds no record of it.
C8_FailedUploadNotPersisted ==
    \A r \in Requests :
        (Req(r).kind = "upload" /\ Req(r).failed # "")
            => /\ Req(r).pc = "done"
               /\ Req(r).status = 500
               /\ Req(r).sent = 1
               /\ DocsOf(r) = {}

\* An upload whose second alternative call failed after the first had
\* succeeded, answered 500, while another upload's record is stored.
C8_Witness ==
    \E r \in Requests :
        /\ Req(r).failed = "alt"
        /\ \E i \in 1..Len(Req(r).results) : Suggests(Req(r).results[i]) /\ Req(r).results[i].greenScore < 40
        /\ Req(r).status = 500
        /\ db # <<>>

\* C9: in every upload response and every persisted record, an item that
\* carries a suggestion has a greenScore below 40.
C9_SuggestionOnlyBelow40 ==
    /\ \A r \in Requests :
         (Req(r).kind = "upload" /\ Req(r).status = 200)
            => \A i \in 1..Len(Req(r).body.items) :
                 Suggests(Req(r).body.items[i]) => Req(r).body.items[i].greenScore < 40
    /\ \A d \in Docs :
         \A i \in 1..Len(d.items) : Suggests(d.items[i]) => d.items[i].greenScore < 40

\* C11: an upload by an authenticated caller is answered 400 both when no
\* file is attached and when the attached file has zero bytes, and in both
\* cases without a completion call and without a storage access.
C11_MissingOrEmptyFileIs400 ==
    \A r \in Requests :
        (/\ Req(r).kind = "upload"
         /\ HeaderVerified(Req(r).authorization)
         /\ (Req(r).file = 0 \/ Req(r).file = 5))
            => /\ Req(r).pc \in {"middleware", "handler", "done"}
               /\ Req(r).pc = "done" <=> Req(r).status = 400
               /\ Req(r).calls.summary = 0
               /\ Req(r).calls.alt = 0
               /\ Req(r).calls.insert = 0
               /\ Req(r).calls.query = 0
               /\ DocsOf(r) = {}

RECURSIVE SumScores(_)
SumScores(scores) ==
    IF scores = <<>> THEN 0 ELSE Head(scores) + SumScores(Tail(scores))

\* a is the integer nearest to total / n, the upper one of the two when
\* total / n lies halfway: a - 1/2 <= total / n < a + 1/2.
IsRoundedMean(a, total, n) ==
    /\ 2 * n * a - n <= 2 * total
    /\ 2 * total < 2 * n * a + n

IsAverageOf(a, items) ==
    /\ a \in 0..100
    /\ IF items = <<>>
       THEN a = 0
       ELSE IsRoundedMean(a, SumScores(GreenScores(items)), Len(items))

\* C12: the averageScore of every successful upload, in the response and
\* in the persisted record, is the mean of the items' greenScore values
\* rounded to the nearest integer (halves up) when there are items and 0
\* when there are none; it is an integer from 0 to 100.
C12_AverageIsRoundedMean ==
    /\ \A r \in Requests :
         (Req(r).kind = "upload" /\ Req(r).status = 200)
            => IsAverageOf(Req(r).body.averageScore, Req(r).body.items)
    /\ \A d \in Docs : IsAverageOf(d.averageScore, d.items)

\* A successful upload whose scores 65 and 0 have the mean 32.5, answered
\* with the average 33; and one with the README's mean 46.67 stored as 47.
C12_Witness ==
    /\ \E r \in Requests :
         /\ Req(r).status = 200
         /\ GreenScores(Req(r).body.items) = <<65, 0>>
         /\ Req(r).body.averageScore = 33
    /\ \E d \in Docs :
         /\ Len(d.items) = 3
         /\ d.averageScore = 47

\* The columns of a file whose header names the product, in any letter case.
ProductColumns(file) ==
    {n \in 1..Len(file.headers) :
        toUpperCase(file.headers[n]) = <<"P","R","O","D","U","C","T">>}

\* Data row i of the file has no product value: there is no product column,
\* or the row ends before it, or the cell is empty.
NoProductValue(file, i) ==
    \A n \in ProductColumns(file) :
        n > Len(file.rows[i]) \/ file.rows[i][n] = <<>>

\* The item holds cell n of data row i under the name of column n.
HoldsCell(item, file, i, n) ==
    \E k \in 1..Len(item.fields) :
        /\ toUpperCase(item.fields[k][1]) = toUpperCase(file.headers[n])
        /\ item.fields[k][2] = file.rows[i][n]

\* The item is data row i: it holds the row's cells that have a column,
\* the suggestion column apart, where a suggestion may have been attached.
IsRow(item, file, i) ==
    \A n \in 1..Min2(Len(file.headers), Len(file.rows[i])) :
        toUpperCase(file.headers[n]) # toUpperCase(KeySuggestion)
            => HoldsCell(item, file, i, n)

\* C13: a row without a product value (no such column, or an empty value)
\* is scored 0 whatever its other columns hold, stays in the items at the
\* position of its row, in the response and in the record, and does not
\* end the upload: while rows are read nothing has failed and nothing has
\* been answered.
C13_RowWithoutProduct ==
    /\ \A r \in Requests :
         Req(r).pc \notin {"middleware", "handler"} /\ Req(r).kind = "upload" /\ Req(r).file # 0
            => LET q == Req(r) IN
               /\ Len(q.results) = q.emitted
               /\ q.pc = "parsing" => (q.status = 0 /\ q.failed = "")
               /\ q.status = 200 => Len(q.body.items) = Len(File(q).rows)
               /\ \A i \in 1..Len(q.results) :
                    NoProductValue(File(q), i)
                        => /\ q.results[i].greenScore = 0
                           /\ IsRow(q.results[i], File(q), i)
                           /\ q.status = 200
                                => /\ q.body.items[i].greenScore = 0
                                   /\ IsRow(q.body.items[i], File(q), i)
    /\ \A d \in Docs :
         /\ Len(d.items) = Len(Files[Req(d.id).file].rows)
         /\ \A i \in 1..Len(d.items) :
              NoProductValue(Files[Req(d.id).file], i)
                  => /\ d.items[i].greenScore = 0
                     /\ IsRow(d.items[i], Files[Req(d.id).file], i)

\* Two successful uploads: one whose only row has no product column, one
\* whose second row has an empty product cell and two other cells.
C13_Witness ==
    \E r, s \in Requests :
        /\ Req(r).file = 3
        /\ Req(r).status = 200
        /\ GreenScores(Req(r).body.items) = <<0>>
        /\ Req(s).file = 7
        /\ Req(s).status = 200
        /\ Get(Req(s).body.items[2].fields, KeyProduct) = <<>>
        /\ Get(Req(s).body.items[2].fields, KeyQuantity) = <<"1","0","0">>
        /\ GreenScores(Req(s).body.items) = <<65, 0>>

\* C14: when the summary call or any one alternative call of an upload
\* has failed, the upload is answered 500 with the error of the analysis
\* stage and no result; a 200 response carries the summary and a
\* suggestion for every item scored below 40, never a part of them.
C14_CompletionFailureAborts ==
    \A r \in Requests :
        LET q == Req(r) IN
        /\ q.failed \in {"summary", "alt"}
            => /\ q.pc = "done"
               /\ q.status = 500
               /\ q.error = "Failed to get AI insights or save data."
               /\ q.body = NoResult
               /\ q.sent = 1
        /\ (q.kind = "upload" /\ q.status = 200)
            => /\ q.body.summary = SummaryText
               /\ q.calls.summary = 1
               /\ q.calls.alt = Cardinality(LowScoringItems(q.body.items))
               /\ q.pending = {}
               /\ \A i \in LowScoringItems(q.body.items) :
                    /\ Has(q.body.items[i].fields, KeySuggestion)
                    /\ Get(q.body.items[i].fields, KeySuggestion) = AltText

\* One upload answered 500 after its summary call failed, and one answered
\* 500 after one of its two alternative calls failed while the other is
\* still outstanding.
C14_Witness ==
    \E r, s \in Requests :
        /\ Req(r).failed = "summary"
        /\ Req(r).status = 500
        /\ Req(s).failed = "alt"
        /\ Req(s).calls.alt = 2
        /\ Cardinality(Req(s).pending) = 1
        /\ Req(s).status = 500

\* The positions of the collection that hold a record written by request r.
RecordsOf(r) == {i \in 1..Len(db) : db[i].id = r}

C15_OneRecordPerSuccess ==
    /\ \A r \in Requests :
         (Req(r).kind = "upload" /\ Req(r).status = 200)
            => /\ Cardinality(RecordsOf(r)) = 1
               /\ Req(r).calls.insert = 1
               /\ \A i \in RecordsOf(r) :
                    /\ db[i].userId = HeaderSubject(Req(r).authorization)
                    /\ db[i].createdAt \in 1..clock
    /\ \A i \in 1..Len(db) :
         /\ RecordsOf(db[i].id) = {i}
         /\ Req(db[i].id).kind = "upload"
         /\ Req(db[i].id).status = 200
         /\ i > 1 => db[i - 1].createdAt <= db[i].createdAt

C15_RecordsKept ==
    /\ Len(db') >= Len(db)
    /\ \A i \in 1..Len(db) : db'[i] = db[i]
    /\ \A r \in Requests :
         (Req(r).kind = "upload" /\ Req(r).status # 200 /\ reqs'[r].status = 200)
            => /\ Len(db') = Len(db) + 1
               /\ db'[Len(db')].id = r

\* C15: every successful upload has inserted exactly one record, which
\* carries the caller's subject and a server timestamp; the 200 response
\* is sent in no step but the one in which the insert has succeeded; and
\* no step changes or removes a record the collection holds.
C15_InsertOnceAndKeep ==
    []C15_OneRecordPerSuccess /\ [][C15_RecordsKept]_vars

\* Two successful uploads, of different callers, whose records are both in
\* the collection, the earlier one as it was inserted.
C15_Witness ==
    /\ Len(db) = 2
    /\ db[1].userId # db[2].userId
    /\ db[1].createdAt = db[2].createdAt
    /\ \A r \in Requests : Req(r).status = 200 /\ Req(r).sent = 1

\* The items are the data rows of the file, one item for each row, item i
\* being row i.
InRowOrder(items, file) ==
    /\ Len(items) = Len(file.rows)
    /\ \A i \in 1..Len(items) : IsRow(items[i], file, i)

\* C16: the items of every upload response and of every persisted record
\* are the rows of the CSV in their order; and from the end of the stream
\* on, whichever suggestions have been attached and in whichever order,
\* the list of items keeps that order, with no row missing or repeated.
C16_ItemsInRowOrder ==
    /\ \A r \in Requests :
         LET q == Req(r) IN
         /\ (q.kind = "upload" /\ q.status = 200)
              => InRowOrder(q.body.items, File(q))
         /\ q.pc \in {"summary", "alts", "insert"} => InRowOrder(q.results, File(q))
         /\ (q.pc = "done" /\ q.failed \in {"summary", "alt", "insert"})
              => InRowOrder(q.results, File(q))
    /\ \A d \in Docs : InRowOrder(d.items, Files[Req(d.id).file])

\* A stored upload of three rows in the file's order, the first and the
\* third with their suggestions attached, while the other upload of the
\* same file waits for its insert.
C16_Witness ==
    \E r \in Requests :
        /\ Req(r).file = 2
        /\ Req(r).pc = "insert"
        /\ DocsOf(3 - r) # {}
        /\ Req(3 - r).file = 2
        /\ Req(3 - r).status = 200
        /\ Get(Req(3 - r).body.items[1].fields, KeyProduct) = TxtPlasticBag
        /\ Get(Req(3 - r).body.items[2].fields, KeyProduct) = TxtLedLightBulbs
        /\ Get(Req(3 - r).body.items[3].fields, KeyProduct) = TxtDisposablePlasticCups
        /\ Suggests(Req(3 - r).body.items[1])
        /\ Suggests(Req(3 - r).body.items[3])

\* C17: the entries of a successful history response are in descending
\* order of createdAt: of two consecutive entries the earlier in the
\* sequence has a createdAt at or after the later one's.
C17_HistoryNewestFirst ==
    \A r \in Requests :
        (Req(r).kind = "history" /\ Req(r).status = 200)
            => \A k \in 1..(Len(Req(r).history) - 1) :
                 Req(r).history[k].createdAt.isoMillis
                     >= Req(r).history[k + 1].createdAt.isoMillis

\* A history of three records of the caller, two of them of the same
\* millisecond and one of an earlier millisecond, the latter inserted
\* first and listed last.
C17_Witness ==
    \E r \in Requests :
        /\ Req(r).status = 200
        /\ Len(Req(r).history) = 3
        /\ Req(r).history[1].createdAt = Req(r).history[2].createdAt
        /\ Req(r).history[2].createdAt.isoMillis > Req(r).history[3].createdAt.isoMillis
        /\ Req(r).history[3].id = db[1].id

\* Data row i of the file has more or fewer cells than the header.
Malformed(file, i) == Len(file.rows[i]) # Len(file.headers)

\* C18: an upload of a CSV with a malformed data row fails as a whole with
\* the CSV error response: the row is not accepted into the items, nothing
\* is requested of the completion service and nothing is persisted.
C18_MalformedRowFailsUpload ==
    \A r \in Requests :
        (Req(r).kind = "upload" /\ Req(r).file # 0)
            => \A i \in 1..Len(File(Req(r)).rows) :
                 Malformed(File(Req(r)), i)
                     => /\ Len(Req(r).results) < i
                        /\ Req(r).calls.summary = 0
                        /\ DocsOf(r) = {}
                        /\ Req(r).pc = "done"
                             => /\ Req(r).status \in {401, 500}
                                /\ Req(r).status = 500
                                     => Req(r).error = "Failed to process CSV file."

\* C19: an upload, by an authenticated caller, of a CSV that has a header
\* row and no data row is a valid input: no row is read, no alternative is
\* requested, the upload is answered with an error only when the stream or
\* a collaborator has failed, and otherwise with a result whose items are
\* empty and whose averageScore is 0, which is also what is stored.
C19_HeaderOnlyIsValid ==
    \A r \in Requests :
        LET q == Req(r) IN
        (q.kind = "upload" /\ q.file = 4 /\ HeaderVerified(q.authorization))
            => /\ q.results = <<>>
               /\ q.calls.alt = 0
               /\ q.failed = "" => q.status \in {0, 200}
               /\ (q.pc = "done" /\ q.failed = "") => q.status = 200
               /\ q.status = 200
                    => /\ q.body.items = <<>>
                       /\ q.body.averageScore = 0
                       /\ q.body.summary = SummaryText
                       /\ q.body.fileName = FileHeaderOnly.originalname
                       /\ q.calls.summary = 1
                       /\ \A d \in DocsOf(r) : d.items = <<>> /\ d.averageScore = 0

\* A header-only upload answered 200 with no items and the average 0, its
\* record stored.
C19_Witness ==
    \E r \in Requests :
        /\ Req(r).file = 4
        /\ Req(r).status = 200
        /\ Req(r).body.items = <<>>
        /\ Req(r).body.averageScore = 0
        /\ \E d \in DocsOf(r) : d.items = <<>>

\* The fields of an item apart from an attached suggestion.
RowFields(item) ==
    {item.fields[k] : k \in {j \in 1..Len(item.fields) : item.fields[j][1] # KeySuggestion}}

\* C20: the README's CSV and the same CSV with its header typed as
\* "Product,QUANTITY,Price" give the same items row by row (the keys
\* product, quantity and price with the same values, the same greenScore)
\* and, when both uploads succeed, the same response and the same record
\* contents.
C20_HeaderCaseIgnored ==
    /\ \A r \in Requests :
         Req(r).file = 6
            => \A i \in 1..Len(Req(r).results) :
                 {f[1] : f \in RowFields(Req(r).results[i])}
                     = { <<"p","r","o","d","u","c","t">>,
                         <<"q","u","a","n","t","i","t","y">>,
                         <<"p","r","i","c","e">> }
    /\ \A r, s \in Requests :
         (Req(r).file = 1 /\ Req(s).file = 6)
            => /\ \A i \in 1..Min2(Len(Req(r).results), Len(Req(s).results)) :
                    /\ RowFields(Req(r).results[i]) = RowFields(Req(s).results[i])
                    /\ Req(r).results[i].greenScore = Req(s).results[i].greenScore
               /\ (Req(r).status = 200 /\ Req(s).status = 200)
                    => /\ Req(r).body = Req(s).body
                       /\ \A d \in DocsOf(r), e \in DocsOf(s) :
                            /\ d.fileName = e.fileName
                            /\ d.averageScore = e.averageScore
                            /\ d.summary = e.summary
                            /\ d.items = e.items

\* Both CSVs uploaded and answered 200, with the scores 80, 0, 60.
C20_Witness ==
    \E r, s \in Requests :
        /\ Req(r).file = 1
        /\ Req(s).file = 6
        /\ Req(r).status = 200
        /\ Req(s).status = 200
        /\ GreenScores(Req(s).body.items) = <<80, 0, 60>>
        /\ DocsOf(r) # {}
        /\ DocsOf(s) # {}

\* The stage of an upload a failure belongs to.
StageOf(failed) ==
    IF failed = "parse" THEN "parse"
    ELSE IF failed \in {"summary", "alt"} THEN "enrichment"
    ELSE IF failed = "insert" THEN "storage"
    ELSE failed

\* The fixed message the server sends for a failure.
MessageOf(failed) ==
    IF failed = "parse" THEN "Failed to process CSV file."
    ELSE IF failed = "query" THEN "Failed to fetch analysis history."
    ELSE "Failed to get AI insights or save data."

\* C21 as stated: the error message of a failed upload identifies the
\* stage that failed, so uploads that failed in different stages (parse,
\* enrichment, storage) are answered with different messages.
C21_MessageIdentifiesStage ==
    \A r, s \in Requests :
        (/\ Req(r).kind = "upload" /\ Req(r).failed # ""
         /\ Req(s).kind = "upload" /\ Req(s).failed # ""
         /\ StageOf(Req(r).failed) # StageOf(Req(s).failed))
            => Req(r).error # Req(s).error

\* C21 as amended: a failed request is answered 500 with a fixed message
\* that does not depend on the exception: the CSV message for a failure of
\* the stream, one common message for a failure of the summary call, of an
\* alternative call or of the insert, and the history message for a
\* failure of the query; the exception's own message is not sent.
C21_FixedErrorMessages ==
    \A r \in Requests :
        Req(r).failed # ""
            => /\ Req(r).status = 500
               /\ Req(r).error = MessageOf(Req(r).failed)
               /\ Req(r).error # Req(r).cause
               /\ Req(r).cause \in ExceptionDetails
               /\ Req(r).body = NoResult
               /\ Req(r).history = <<>>

\* An upload whose insert failed and one whose alternative call failed,
\* with different exceptions, both answered with the common message.
C21_Witness ==
    \E r, s \in Requests :
        /\ Req(r).failed = "insert"
        /\ Req(s).failed = "alt"
        /\ Req(r).cause # Req(s).cause
        /\ Req(r).error = "Failed to get AI insights or save data."
        /\ Req(s).error = Req(r).error

\* C22: the body of a successful upload response has the fields fileName,
\* averageScore, summary and items and no other; the record stored for the
\* upload has the same four values and, besides them, the owner id and the
\* server timestamp only.
C22_ResponseAndRecordFields ==
    \A r \in Requests :
        (Req(r).kind = "upload" /\ Req(r).status = 200)
            => /\ DOMAIN Req(r).body = {"fileName", "averageScore", "summary", "items"}
               /\ DocsOf(r) # {}
               /\ \A d \in DocsOf(r) :
                    /\ DOMAIN d \ {"id"}
                         = {"fileName", "averageScore", "summary", "items",
                            "userId", "createdAt"}
                    /\ d.fileName = Req(r).body.fileName
                    /\ d.averageScore = Req(r).body.averageScore
                    /\ d.summary = Req(r).body.summary
                    /\ d.items = Req(r).body.items
                    /\ d.userId = HeaderSubject(Req(r).authorization)
                    /\ d.createdAt \in 1..clock

\* A successful upload of the CSV with a UserId column: its items carry
\* the column, its body has no owner, its record has the caller as owner,
\* and two of its items have an attached suggestion in both.
C22_Witness ==
    \E r \in Requests :
        /\ Req(r).file = 2
        /\ Req(r).status = 200
        /\ Has(Req(r).body.items[1].fields, KeyUserid)
        /\ \E d \in DocsOf(r) :
             /\ d.items = Req(r).body.items
             /\ Get(d.items[1].fields, KeySuggestion) = AltText
             /\ Get(d.items[3].fields, KeySuggestion) = AltText

\* C23: when an alternative request of an upload has failed and all its
\* alternative requests have settled, the caller is delivered a result
\* with the summary in which every low-scoring row whose own request
\* succeeded carries its suggestion.
C23_RowFailureIsolated ==
    \A r \in Requests :
        (Req(r).failed = "alt" /\ Req(r).pending = {})
            => /\ Req(r).status = 200
               /\ Req(r).body.summary = SummaryText
               /\ \A j \in LowScoringItems(Req(r).results) :
                    (/\ Has(Req(r).results[j].fields, KeySuggestion)
                     /\ Get(Req(r).results[j].fields, KeySuggestion) = AltText)
                        => /\ j <= Len(Req(r).body.items)
                           /\ Has(Req(r).body.items[j].fields, KeySuggestion)
                           /\ Get(Req(r).body.items[j].fields, KeySuggestion) = AltText

C24_InsertAfterAll ==
    \A r \in Requests :
        LET q == Req(r) IN
        /\ q.calls.alt \in {0, Cardinality(LowScoringItems(q.results))}
        /\ (q.pc = "insert" \/ q.calls.insert > 0 \/ DocsOf(r) # {})
             => /\ q.pending = {}
                /\ q.calls.alt = Cardinality(LowScoringItems(q.results))
                /\ q.finalResult.items = q.results
                /\ \A j \in LowScoringItems(q.results) :
                     Get(q.finalResult.items[j].fields, KeySuggestion) = AltText
        /\ q.calls.insert = 0 => q.finalResult = NoResult

C24_FanOutFanIn ==
    \A r \in Requests :
        /\ reqs'[r].calls.alt # Req(r).calls.alt
             => /\ Req(r).calls.alt = 0
                /\ reqs'[r].pending = LowScoringItems(Req(r).results)
                /\ reqs'[r].calls.alt = Cardinality(reqs'[r].pending)
        /\ reqs'[r].calls.insert # Req(r).calls.insert
             => /\ reqs'[r].pending = {}
                /\ Req(r).pc \in {"summary", "alts"}
        /\ reqs'[r].finalResult # Req(r).finalResult
             => reqs'[r].calls.insert # Req(r).calls.insert

\* C24: the alternative requests of an upload are all issued in one step,
\* one for each low-scoring row, and are in flight together; the result
\* is assembled and the insert issued in the step in which the last of
\* them settles (or at once when there is none), so that whenever an
\* insert is issued, waited for or done, none of them is still in flight.
C24_FanIn ==
    []C24_InsertAfterAll /\ [][C24_FanOutFanIn]_vars

\* An upload with two alternative requests, both resolved, waiting for its
\* insert, while the other upload has its two requests in flight together.
C24_Witness ==
    \E r, s \in Requests :
        /\ Req(r).pc = "insert"
        /\ Req(r).calls.alt = 2
        /\ Req(r).pending = {}
        /\ Req(s).pc = "alts"
        /\ Cardinality(Req(s).pending) = 2

\* Request r has passed the authentication and file checks of the upload
\* route and has not been answered.
Processing(r) ==
    /\ r \in Requests
    /\ Req(r).kind = "upload"
    /\ Req(r).pc \in {"parsing", "summary", "alts", "insert"}

Responded(r) == r \in Requests /\ Req(r).sent >= 1

AtMostOneResponse ==
    \A r \in Requests :
        /\ Req(r).sent <= 1
        /\ Req(r).sent = 1 <=> Req(r).status # 0
        /\ Req(r).sent = 1 <=> Req(r).pc = "done"
        /\ Req(r).status = 200 => Req(r).error = ""

\* C25: an upload that has passed the authentication and file checks is
\* eventually answered, when the stream ends or fails and every
\* collaborator call settles; and no request is ever answered twice, nor
\* with a result and an error.
C25_AnsweredOnce ==
    /\ \A r \in 1..MaxFairRequests : Processing(r) ~> Responded(r)
    /\ []AtMostOneResponse

\* An upload that passed the checks and was answered 500, once, after an
\* alternative request failed, while another of its alternative requests
\* is still in flight.
C25_Witness ==
    \E s \in Requests :
        /\ Req(s).status = 500 /\ Req(s).sent = 1 /\ Req(s).failed = "alt"
        /\ Req(s).pending # {}

\* C26: within an upload, the summary is requested only when every row of
\* the CSV has been parsed and scored; alternatives are requested only
\* after the summary has been received, and never when the summary call
\* has failed; the insert is issued only after the summary and every
\* alternative have been received; and the result is sent only after the
\* insert has stored the record.
C26_StageOrder ==
    \A r \in Requests :
        LET q == Req(r) IN
        Req(r).kind = "upload" =>
        /\ q.calls.summary > 0
             => /\ q.emitted = Len(File(q).rows)
                /\ Len(q.results) = Len(File(q).rows)
        /\ q.calls.alt > 0
             => /\ q.calls.summary = 1
                /\ q.summary = SummaryText
        /\ q.failed = "summary"
             => /\ q.calls.alt = 0
                /\ q.pending = {}
                /\ q.calls.insert = 0
        /\ q.calls.insert > 0
             => /\ q.summary = SummaryText
                /\ q.calls.alt = Cardinality(LowScoringItems(q.results))
                /\ q.pending = {}
                /\ q.failed \in {"", "insert"}
        /\ q.status = 200
             => /\ q.calls.insert = 1
                /\ DocsOf(r) # {}
        /\ DocsOf(r) # {} => q.status = 200

\* An upload that went through every stage (three rows, a summary, two
\* alternatives, an insert, a result) and one with low-scoring rows whose
\* summary call failed, with no alternative requested.
C26_Witness ==
    \E r, s \in Requests :
        /\ Req(r).file = 2
        /\ Req(r).calls = [verify |-> 1, summary |-> 1, alt |-> 2, insert |-> 1, query |-> 0]
        /\ Req(r).status = 200
        /\ Req(s).file = 2
        /\ Req(s).failed = "summary"
        /\ Req(s).calls.alt = 0

\* The rows of an upload that are scored below 40.
Below40(q) == {i \in 1..Len(q.results) : GreenScores(q.results)[i] < 40}

C27_Counts ==
    \A r \in Requests :
        LET q == Req(r) IN
        q.kind = "upload" =>
        /\ q.calls.summary <= 1
        /\ q.calls.insert <= 1
        /\ q.calls.query = 0
        /\ q.pc \in {"summary", "alts", "insert"} => q.calls.summary = 1
        /\ q.failed \in {"summary", "alt", "insert"} => q.calls.summary = 1
        /\ q.status = 200 => q.calls.summary = 1 /\ q.calls.insert = 1
        /\ q.summary = SummaryText => q.calls.alt = Cardinality(Below40(q))
        /\ q.summary # SummaryText => q.calls.alt = 0
        /\ q.pending \subseteq Below40(q)

C27_NoRetry ==
    \A r \in Requests :
        /\ reqs'[r].calls.alt # Req(r).calls.alt
             => /\ Req(r).calls.alt = 0
                /\ reqs'[r].pending = Below40(Req(r))
                /\ reqs'[r].calls.alt = Cardinality(Below40(Req(r)))
        /\ reqs'[r].pending # Req(r).pending /\ Req(r).calls.alt > 0
             => \E i \in Req(r).pending : reqs'[r].pending = Req(r).pending \ {i}
        /\ Req(r).failed # "" => reqs'[r].calls = Req(r).calls
        /\ \A c \in {"summary", "insert", "query", "verify"} :
             reqs'[r].calls[c] \in {Req(r).calls[c], Req(r).calls[c] + 1}

\* C27: an upload issues one summary request and no second one; when the
\* summary has been received it issues, in that step, one alternative
\* request for each row scored below 40, a row scored 0 for want of a
\* product included, and none for a row scored 40 or more; it attempts at
\* most one insert; and after a failure it issues no further call.
C27_CallCounts ==
    []C27_Counts /\ [][C27_NoRetry]_vars

\* An upload of a row scored exactly 40 that was stored with no
\* alternative requested, and an upload of a row without a product value
\* for which an alternative was requested and the insert then failed.
C27_Witness ==
    \E r, s \in Requests :
        /\ Req(r).file = 8
        /\ GreenScores(Req(r).results) = <<40>>
        /\ Req(r).status = 200
        /\ Req(r).calls.alt = 0
        /\ Req(s).file = 7
        /\ GreenScores(Req(s).results) = <<65, 0>>
        /\ Req(s).calls.alt = 1
        /\ Req(s).failed = "insert"
        /\ Req(s).calls.insert = 1

\* What an upload of each file of the catalog yields when it is the only
\* request: the scores of its rows and their rounded mean.
AloneScores ==
    << <<80, 0, 60>>, <<20, 60, 0>>, <<0>>, <<>>, <<>>, <<80, 0, 60>>, <<65, 0>>, <<40>> >>
AloneAverage == <<47, 27, 0, 0, 0, 47, 33, 40>>

\* The result is the one the file yields alone: its name, its rows in
\* order and nothing else, their scores, the average, the summary, and the
\* alternative on the rows below 40 and on no other row.
IsAloneResult(result, f) ==
    /\ result.fileName = Files[f].originalname
    /\ InRowOrder(result.items, Files[f])
    /\ GreenScores(result.items) = AloneScores[f]
    /\ result.averageScore = AloneAverage[f]
    /\ result.summary = SummaryText
    /\ \A i \in 1..Len(result.items) :
         (/\ Has(result.items[i].fields, KeySuggestion)
          /\ Get(result.items[i].fields, KeySuggestion) = AltText)
            <=> AloneScores[f][i] < 40

\* C28: whatever the interleaving of two uploads, the response and the
\* record of each are what its file yields when uploaded alone, and while
\* an upload is in progress its items are rows of its own file only.
C28_UploadsIsolated ==
    /\ \A r \in Requests :
         Req(r).kind = "upload" /\ Req(r).file # 0
            => /\ Len(Req(r).results) <= Len(File(Req(r)).rows)
               /\ \A i \in 1..Len(Req(r).results) :
                    /\ IsRow(Req(r).results[i], File(Req(r)), i)
                    /\ Req(r).results[i].greenScore = AloneScores[Req(r).file][i]
               /\ Req(r).status = 200 => IsAloneResult(Req(r).body, Req(r).file)
    /\ \A d \in Docs :
         /\ IsAloneResult(d, Req(d.id).file)
         /\ d.userId = HeaderSubject(Req(d.id).authorization)

\* Two uploads of one caller in progress together: one has its three
\* items and an alternative outstanding, the other has read two of its
\* three rows.
C28_InProgressTogether ==
    \E r, s \in Requests :
        /\ Req(r).file = 2 /\ Req(s).file = 1
        /\ Req(r).authorization = Req(s).authorization
        /\ Req(r).pc = "alts" /\ Cardinality(Req(r).pending) = 1
        /\ Req(s).pc = "parsing" /\ Req(s).emitted = 2

\* Two uploads of different files, by one caller, both answered 200 and
\* stored, each with its own rows.
C28_Witness ==
    \E r, s \in Requests :
        /\ Req(r).file = 2 /\ Req(s).file = 1
        /\ Req(r).authorization = Req(s).authorization
        /\ Req(r).status = 200 /\ Req(s).status = 200
        /\ Len(db) = 2
        /\ db[1].id = s /\ s > r

C29_ItemsKept ==
    \A r \in Requests : Req(r).sent >= 1 => reqs'[r].results = Req(r).results

\* C29: once an upload has been answered, with a result or with an error,
\* no step changes its items: no suggestion is attached any more.
C29_NoSuggestionAfterResponse ==
    [][C29_ItemsKept]_vars

\* C30: in the client, while no user is signed in the history is empty;
\* while a user is signed in, the history is empty or is the response to
\* a history request issued for that user since the sign-in, and holds
\* that user's records only.
C30_HistoryFollowsAuth ==
    /\ ~app.user.set => app.history = <<>>
    /\ app.user.set
         => /\ app.source.set
                 => /\ app.source.uid = app.user.uid
                    /\ app.source.session = app.authEvents
            /\ \A i \in 1..Len(app.history) : app.history[i].userId = app.user.uid

====
